---------------------------- MODULE Spec2Model ----------------------------
(***************************************************************************)
(* State-machine model of the interview session runtime of the AI voice    *)
(* interviewer: the React interview page (InterviewPage.jsx), its network  *)
(* helper (services/api.js), the App shell that owns navigation, and the   *)
(* server-side violation aggregator the page reports to.  The aggregator's *)
(* code is not part of the sources at hand; it is modelled from the        *)
(* design document (section 4.2) and marked as such.                       *)
(*                                                                         *)
(* Confidences are integers in percent (0.85 -> 85).  Time is counted in   *)
(* whole seconds.  Audio frame durations are whole ticks of the audio      *)
(* clock; a duration of 0 is an empty frame, for which createBuffer throws.*)
(***************************************************************************)
EXTENDS Integers, Sequences, FiniteSets, Bags, TLC

\* ------------------------------------------------------------------ bounds
MaxTime == 4
MaxReports == 3
MaxFrames == 2
MaxDur == 2
MaxWsQueue == 2
MaxEndClicks == 2
MaxIgnored == 2
\* a window within which a connection attempt is expected to have succeeded
ConnectWindow == 3
\* the per-kind cooldown, whose length is configurable
CooldownWindow == 3
\* a confidence below the threshold
LowConfidence == 50

\* ------------------------------------------------------- program constants
MaxStrikes == 2
ConfidenceThreshold == 60
FacePollInterval == 2
NoFaceGrace == 3

TabSwitchConfidence == 100
WindowBlurConfidence == 85
NoFaceConfidence == 80
MultipleFacesConfidence == 90
RightClickConfidence == 65
CopyAttemptConfidence == 70

Kinds == {"tab_switch", "window_blur", "right_click", "copy_attempt",
          "no_face", "multiple_faces"}

Max(a, b) == IF a >= b THEN a ELSE b

VARIABLES
    \* --- App shell
    page,            \* "interview" | "results" | "home"
    interviewData,   \* outcomes handed to onComplete so far ("none" or the last one)
    dataStrikes,     \* interviewData.strikes (0 while there is no data)
    \* --- InterviewPage React state
    status,          \* 'connecting' | 'connected' | 'disconnected' | 'error'
    strikes,         \* useState(0)
    terminated,      \* useState(false)
    \* --- InterviewPage refs and the objects they hold
    wsState,         \* readyState of the WebSocket behind wsRef
    media,           \* getUserMedia: "pending" | "granted" | "denied"
    stream,          \* streamRef: "none" | "live" | "stopped"
    audioCtx,        \* audioContextRef: "none" | "open" | "closed"
    currentTime,     \* audioContext.currentTime of the context in audioCtx
    capture,         \* number of connected ScriptProcessor pipelines
    recorderRef,     \* mediaRecorderRef: "none" | "connected" | "disconnected"
    nextStartTime,   \* nextStartTimeRef
    lastFaceDetected,\* lastFaceDetectedRef
    lastAnyFace,     \* when detect() last returned a face (history)
    lastDetect,      \* what the last detect() gave: "none" yet | "zero" |
                     \* "one" | "many" faces | "error" (history)
    faceDetector,    \* faceDetectorRef: "uninitialized" | "available" | "unavailable"
    facePoll,        \* "idle" | "detecting": a detect() call is pending
    nextPoll,        \* when the setInterval timer fires next
    \* --- in flight
    wsIn,            \* messages the server sent on the channel, in order
    greeted,         \* the server has sent its {type:"connected"} message
    nAudio,          \* audio frames the server has sent so far
    logged,          \* console entries of api.js for what it ignored or dropped
    blobs,           \* onAudio calls awaiting blob.arrayBuffer(): the frame's
                     \* number in delivery order and its duration
    reqs,            \* bag of violation reports sent, not yet handled
    resps,           \* bag of violation-report responses not yet received
    endPending,      \* bag of end-interview calls awaiting their response:
                     \* wasTerminated and the strikes of the call's closure
    \* --- server-side aggregator (modelled from the design document)
    bStrikes, bTerminated, bLog, bLastStrike,
    \* --- clock and history
    now,
    nReports,        \* reports submitted by the page so far
    nHandled,        \* reports the aggregator has handled so far
    sched,           \* frames handed to source.start(): <<start, end>>
    lastCapture,     \* what the last onaudioprocess callback did
    endRequests,     \* end-interview requests issued
    teardowns,       \* handleInterviewEnd invocations
    lastCleanup,     \* what the last cleanup() released, in the order it did
    outcomes,        \* final states reported through onComplete
    endClicks,
    \* --- the document
    hidden,          \* document.hidden
    defaultAction,   \* of the last contextmenu / copy event: "none" |
                     \* "cancelled" | "completed"
    played,          \* the frames of onAudio that playAudio has scheduled,
                     \* in that order (history)
    reportErrors     \* console.error entries of handleCheatingDetection's catch

appVars == <<page, interviewData, dataStrikes>>
pageVars == <<status, strikes, terminated>>
mediaVars == <<media, stream, audioCtx, capture, recorderRef>>
chanVars == <<wsState, wsIn, greeted, nAudio, logged>>
reportVars == <<reqs, resps, nReports>>
playVars == <<nextStartTime, sched>>
faceVars == <<lastFaceDetected, lastAnyFace, lastDetect, faceDetector,
              facePoll, nextPoll>>
aggVars == <<bStrikes, bTerminated, bLog, bLastStrike, nHandled>>
endVars == <<endPending, endRequests, teardowns, outcomes, endClicks,
             lastCleanup>>

vars == <<page, interviewData, dataStrikes, status, strikes, terminated, wsState, media,
          stream, audioCtx, currentTime, capture, nextStartTime,
          lastFaceDetected, lastAnyFace, lastDetect, faceDetector, facePoll,
          nextPoll,
          wsIn, blobs, reqs, resps,
          endPending, bStrikes, bTerminated, bLog, bLastStrike, now,
          nReports, nHandled, sched, lastCapture, endRequests, teardowns,
          outcomes, endClicks, recorderRef, greeted, nAudio, lastCleanup,
          logged, hidden, defaultAction, played, reportErrors>>

NoCapture == [seq |-> 0, sent |-> FALSE, terminated |-> FALSE,
              playing |-> FALSE]

\* The state after the App has rendered the interview page and the page's
\* mount effects have run: initializeMedia() awaits getUserMedia,
\* connectWebSocket() has created the socket, the listeners and the
\* face-poll interval are installed.
Init ==
    /\ faceDetector = "uninitialized"
    /\ page = "interview"
    /\ interviewData = "none"
    /\ dataStrikes = 0
    /\ status = "connecting"
    /\ strikes = 0
    /\ terminated = FALSE
    /\ wsState = "CONNECTING"
    /\ media = "pending"
    /\ stream = "none"
    /\ audioCtx = "none"
    /\ currentTime = 0
    /\ capture = 0
    /\ recorderRef = "none"
    /\ greeted = FALSE
    /\ nAudio = 0
    /\ logged = 0
    /\ nextStartTime = 0
    /\ lastFaceDetected = 0
    /\ lastAnyFace = 0
    /\ lastDetect = "none"
    /\ facePoll = "idle"
    /\ nextPoll = FacePollInterval
    /\ wsIn = <<>>
    /\ blobs = <<>>
    /\ reqs = EmptyBag
    /\ resps = EmptyBag
    /\ endPending = EmptyBag
    /\ bStrikes = 0
    /\ bTerminated = FALSE
    /\ bLog = <<>>
    /\ bLastStrike = [k \in Kinds |-> -1]
    /\ now = 0
    /\ nReports = 0
    /\ nHandled = 0
    /\ sched = <<>>
    /\ lastCapture = NoCapture
    /\ endRequests = 0
    /\ teardowns = 0
    /\ lastCleanup = <<>>
    /\ outcomes = {}
    /\ endClicks = 0
    /\ hidden = FALSE
    /\ defaultAction = "none"
    /\ played = <<>>
    /\ reportErrors = 0

\* ------------------------------------------------------------------ clock
\* One second passes.  An open audio context's clock advances with it; a
\* closed context's clock is frozen.
Tick ==
    /\ now < MaxTime
    /\ now' = now + 1
    /\ currentTime' = IF audioCtx = "open" THEN currentTime + 1 ELSE currentTime
    /\ UNCHANGED <<appVars, pageVars, chanVars, mediaVars, playVars, faceVars,
                   blobs, reportVars, aggVars, endVars, lastCapture, hidden, defaultAction, played, reportErrors>>

\* ------------------------------------------- violation aggregator (server)
\* submit(event) -> Outcome.  An event is converted to a strike when the
\* session is not terminated, its confidence reaches the threshold and no
\* event of its kind produced a strike within the cooldown window.
NeverInCooldown(kind) == FALSE

InCooldown(kind) ==
    /\ bLastStrike[kind] >= 0
    /\ now - bLastStrike[kind] < CooldownWindow

AcceptedAnyConfidence(kind, conf) == ~bTerminated /\ ~InCooldown(kind)

Accepted(kind, conf) ==
    /\ ~bTerminated
    /\ conf >= ConfidenceThreshold
    /\ ~InCooldown(kind)

StrikeNumberFromPageCopy(kind, conf) ==
    IF Accepted(kind, conf) THEN strikes + 1 ELSE 0

StrikeNumber(kind, conf) == IF Accepted(kind, conf) THEN bStrikes + 1 ELSE 0

OutcomeWarnsAtMax(kind, conf) ==
    IF ~Accepted(kind, conf) THEN "Ignored"
    ELSE IF bStrikes + 1 <= MaxStrikes THEN "Warned"
    ELSE "Terminated"

Outcome(kind, conf) ==
    IF ~Accepted(kind, conf) THEN "Ignored"
    ELSE IF bStrikes + 1 < MaxStrikes THEN "Warned"
    ELSE "Terminated"

\* Every event, whatever its outcome, is appended to the audit log.
Submit(kind, conf) ==
    /\ bLog' = Append(bLog, [kind |-> kind, confidence |-> conf, time |-> now,
                             strike |-> StrikeNumber(kind, conf),
                             outcome |-> Outcome(kind, conf)])
    /\ bStrikes' = IF Accepted(kind, conf) THEN bStrikes + 1 ELSE bStrikes
    /\ bTerminated' = (bTerminated \/ Outcome(kind, conf) = "Terminated")
    /\ bLastStrike' = IF Accepted(kind, conf)
                      THEN [bLastStrike EXCEPT ![kind] = now]
                      ELSE bLastStrike
    /\ nHandled' = nHandled + 1

\* The report endpoint's answer: {strikes, terminated} of the session after
\* the event has been handled.
ReportResult(late) ==
    [strikes |-> bStrikes', terminated |-> bTerminated', late |-> late]

\* The aggregator driven directly, by any client of the report endpoint
\* (reportCheating accepts any event type and confidence).
AggKinds == {"tab_switch", "window_blur", "no_face"}
AggConfidences == {LowConfidence, ConfidenceThreshold, WindowBlurConfidence,
                   TabSwitchConfidence}

AggSubmit(kind, conf) ==
    /\ nHandled < MaxReports
    /\ Submit(kind, conf)
    /\ UNCHANGED <<appVars, pageVars, chanVars, mediaVars, currentTime,
                   playVars, faceVars, blobs, reportVars, endVars, now,
                   lastCapture, hidden, defaultAction, played, reportErrors>>

NextAggregator ==
    \/ Tick
    \/ \E kind \in AggKinds, conf \in AggConfidences : AggSubmit(kind, conf)

SpecAggregator == Init /\ [][NextAggregator]_vars

\* ------------------------------------------------------- playback (page)
\* playAudio(arrayBuffer): the frame is dur ticks long.  The context is the
\* one in audioContextRef, or a new one when the ref is empty.  An empty
\* frame makes createBuffer throw; the catch logs and nothing is scheduled.
\* On a closed context createBufferSource either throws (older engines: the
\* catch logs) or succeeds and source.start() is called (current Web Audio).
StartAtCurrentTime(dur) == currentTime

StartAtCursor(dur) == nextStartTime

StartTime(dur) == Max(currentTime, nextStartTime)

NextCursor(dur) ==
    IF StartTime(dur) + dur < currentTime THEN currentTime
    ELSE StartTime(dur) + dur

playAudio(dur) ==
    /\ audioCtx' = IF audioCtx = "none" THEN "open" ELSE audioCtx
    /\ \/ /\ dur = 0 \/ audioCtx = "closed"
          /\ UNCHANGED playVars
       \/ /\ dur > 0
          /\ sched' = Append(sched, <<StartTime(dur), StartTime(dur) + dur>>)
          /\ nextStartTime' = NextCursor(dur)

\* playAudio driven directly with a frame of any duration, at any reading
\* of the audio clock.
PlayFrame(dur) ==
    /\ Len(sched) < MaxFrames
    /\ playAudio(dur)
    /\ UNCHANGED <<appVars, pageVars, chanVars, media, stream, capture,
                   recorderRef, currentTime, faceVars, blobs, reportVars,
                   aggVars, endVars, now, lastCapture, hidden, defaultAction, played, reportErrors>>

NextPlayback ==
    \/ Tick
    \/ \E dur \in 0..MaxDur : PlayFrame(dur)

SpecPlayback == Init /\ [][NextPlayback]_vars

\* ------------------------------------------------- teardown and completion
cleanupVars == <<recorderRef, capture, wsState, wsIn, stream, audioCtx,
                 lastCleanup>>

Mounted == page = "interview"

\* cleanup(): disconnect the pipeline in mediaRecorderRef, close the socket,
\* stop the stream's tracks, close the audio context; each only when its ref
\* is set.  No message event is dispatched once close() has been called, so
\* the messages still queued on the socket are lost.
ChannelFirstSteps ==
    <<"channel">>
    \o (IF recorderRef # "none" THEN <<"capture">> ELSE <<>>)
    \o (IF stream # "none" THEN <<"device">> ELSE <<>>)
    \o (IF audioCtx # "none" THEN <<"context">> ELSE <<>>)

\* The statements of cleanup() that act, in program order (wsRef is set
\* from the mount effect on).
CleanupSteps ==
    (IF recorderRef # "none" THEN <<"capture">> ELSE <<>>)
    \o <<"channel">>
    \o (IF stream # "none" THEN <<"device">> ELSE <<>>)
    \o (IF audioCtx # "none" THEN <<"context">> ELSE <<>>)

cleanup ==
    /\ lastCleanup' = CleanupSteps
    /\ recorderRef' = IF recorderRef = "none" THEN "none" ELSE "disconnected"
    /\ capture' = IF recorderRef = "connected" THEN capture - 1 ELSE capture
    /\ wsState' = IF wsState \in {"CONNECTING", "OPEN"} THEN "CLOSING"
                  ELSE wsState
    /\ wsIn' = <<>>
    /\ stream' = IF stream = "none" THEN "none" ELSE "stopped"
    /\ audioCtx' = IF audioCtx = "none" THEN "none" ELSE "closed"

\* handleInterviewEnd(wasTerminated), up to its await: cleanup(), then the
\* end-interview request is issued.  The function is a closure of one
\* render of the page: the strikes it will pass to onComplete are that
\* render's.
EndCall(wasTerminated, closureStrikes) ==
    [wasTerminated |-> wasTerminated, strikes |-> closureStrikes]

EndCalls == [wasTerminated : BOOLEAN, strikes : 0..MaxStrikes]

handleInterviewEnd(wasTerminated, closureStrikes) ==
    /\ cleanup
    /\ teardowns' = teardowns + 1
    /\ endRequests' = endRequests + 1
    /\ endPending' =
          endPending (+) SetToBag({EndCall(wasTerminated, closureStrikes)})

\* The callbacks given to createInterviewWebSocket and the listeners and
\* the poll of the [terminated] effects are created by the effects of the
\* first render (the [terminated] effects run again only once terminated is
\* true, when their handlers do nothing): the handleInterviewEnd they reach
\* holds the strikes of that render, useState(0).
FirstRenderStrikes == 0

\* onComplete(data) is App.handleInterviewComplete: it stores the data and
\* shows the results page, which unmounts the interview page; the mount
\* effect's cleanup then runs cleanup().
onComplete(outcome, passedStrikes) ==
    /\ interviewData' = outcome
    /\ dataStrikes' = passedStrikes
    /\ page' = "results"
    /\ outcomes' = outcomes \cup {outcome}
    /\ IF Mounted THEN cleanup ELSE UNCHANGED cleanupVars

\* A state setter of the page: a no-op once the page is unmounted.
SetState(new, old) == IF Mounted THEN new ELSE old

\* --------------------------------------------------------- media (page)
\* initializeMedia(), getUserMedia resolved: streamRef and a new 16 kHz
\* context are stored, replacing whatever audioContextRef held.
MediaGranted ==
    /\ media = "pending"
    /\ media' = "granted"
    /\ stream' = "live"
    /\ audioCtx' = "open"
    /\ currentTime' = 0
    /\ UNCHANGED <<appVars, pageVars, chanVars, capture, recorderRef, playVars,
                   faceVars, blobs, reportVars, aggVars, endVars, now,
                   lastCapture, hidden, defaultAction, played, reportErrors>>

\* initializeMedia(), getUserMedia rejected: setStatus('error').
MediaDenied ==
    /\ media = "pending"
    /\ media' = "denied"
    /\ status' = SetState("error", status)
    /\ UNCHANGED <<appVars, strikes, terminated, chanVars, stream, audioCtx,
                   capture, recorderRef, currentTime, playVars, faceVars,
                   blobs, reportVars, aggVars, endVars, now, lastCapture, hidden, defaultAction, played, reportErrors>>

\* startAudioCapture(): returns early without a stream or a context;
\* otherwise connects a new pipeline and stores it in mediaRecorderRef.
CanCapture == stream # "none" /\ audioCtx # "none"

startAudioCapture ==
    /\ capture' = IF CanCapture THEN capture + 1 ELSE capture
    /\ recorderRef' = IF CanCapture THEN "connected" ELSE recorderRef

\* onConnected: setStatus('connected'); startAudioCapture().
onConnected ==
    /\ status' = SetState("connected", status)
    /\ startAudioCapture

\* ------------------------------------------------------ channel (api.js)
\* ws.onopen -> callbacks.onConnected().
WsOpen ==
    /\ wsState = "CONNECTING"
    /\ wsState' = "OPEN"
    /\ onConnected
    /\ UNCHANGED <<logged, appVars, strikes, terminated, wsIn, greeted, nAudio, media,
                   stream, audioCtx, currentTime, playVars, faceVars, blobs,
                   reportVars, aggVars, endVars, now, lastCapture, hidden, defaultAction, played, reportErrors>>

WsDroppedReconnects ==
    /\ wsState \in {"CONNECTING", "OPEN"}
    /\ wsState' = "CONNECTING"
    /\ wsIn' = <<>>
    /\ status' = SetState("disconnected", status)
    /\ UNCHANGED <<logged, appVars, strikes, terminated, greeted, nAudio, mediaVars,
                   currentTime, playVars, faceVars, blobs, reportVars, aggVars,
                   endVars, now, lastCapture, hidden, defaultAction, played, reportErrors>>

\* The connection is refused or dropped: ws.onerror logs, ws.onclose ->
\* onDisconnected -> setStatus('disconnected').
WsDropped ==
    /\ wsState \in {"CONNECTING", "OPEN"}
    /\ wsState' = "CLOSED"
    /\ wsIn' = <<>>
    /\ status' = SetState("disconnected", status)
    /\ UNCHANGED <<logged, appVars, strikes, terminated, greeted, nAudio, mediaVars,
                   currentTime, playVars, faceVars, blobs, reportVars, aggVars,
                   endVars, now, lastCapture, hidden, defaultAction, played, reportErrors>>

\* The close the page asked for completes: ws.onclose -> onDisconnected.
WsClosed ==
    /\ wsState = "CLOSING"
    /\ wsState' = "CLOSED"
    /\ status' = SetState("disconnected", status)
    /\ UNCHANGED <<logged, appVars, strikes, terminated, wsIn, greeted, nAudio,
                   mediaVars, currentTime, playVars, faceVars, blobs,
                   reportVars, aggVars, endVars, now, lastCapture, hidden, defaultAction, played, reportErrors>>

\* The server's side of the channel.  Msg builds a channel message.
Msg(type, n) == [type |-> type, n |-> n]

\* The server greets with {type:"connected"} once the socket is accepted.
ServerSendConnected ==
    /\ wsState = "OPEN"
    /\ ~greeted
    /\ Len(wsIn) < MaxWsQueue
    /\ greeted' = TRUE
    /\ wsIn' = Append(wsIn, Msg("connected", 0))
    /\ UNCHANGED <<logged, appVars, pageVars, wsState, nAudio, mediaVars, currentTime,
                   playVars, faceVars, blobs, reportVars, aggVars, endVars,
                   now, lastCapture, hidden, defaultAction, played, reportErrors>>

\* The server relays a frame of agent audio (a binary message) while the
\* session is not terminated.
ServerSendAudio(dur) ==
    /\ wsState = "OPEN"
    /\ ~bTerminated
    /\ nAudio < MaxFrames
    /\ Len(wsIn) < MaxWsQueue
    /\ nAudio' = nAudio + 1
    /\ wsIn' = Append(wsIn, Msg("audio", dur))
    /\ UNCHANGED <<logged, appVars, pageVars, wsState, greeted, mediaVars, currentTime,
                   playVars, faceVars, blobs, reportVars, aggVars, endVars,
                   now, lastCapture, hidden, defaultAction, played, reportErrors>>

\* The server (or anything in between) sends a text message the page does
\* not know: "malformed" is not valid JSON, "unknown" is JSON with a type
\* outside connected / transcript / warning / terminated / error.
Ignorable == {"malformed", "unknown"}

InQueue(types) == Cardinality({i \in 1..Len(wsIn) : wsIn[i].type \in types})

ServerSendOther(type) ==
    /\ wsState = "OPEN"
    /\ Len(wsIn) < MaxWsQueue
    /\ logged + InQueue(Ignorable) < MaxIgnored
    /\ wsIn' = Append(wsIn, Msg(type, 0))
    /\ UNCHANGED <<appVars, pageVars, wsState, greeted, nAudio, logged,
                   mediaVars, currentTime, playVars, faceVars, blobs,
                   reportVars, aggVars, endVars, now, lastCapture, hidden, defaultAction, played, reportErrors>>

DeliverIgnoredDisconnects ==
    /\ wsState = "OPEN" /\ wsIn # <<>> /\ Head(wsIn).type \in Ignorable
    /\ wsIn' = Tail(wsIn)
    /\ logged' = logged + 1
    /\ status' = SetState("disconnected", status)
    /\ UNCHANGED <<appVars, strikes, terminated, wsState, greeted, nAudio,
                   mediaVars, currentTime, playVars, faceVars, blobs,
                   reportVars, aggVars, endVars, now, lastCapture, hidden, defaultAction, played, reportErrors>>

\* ws.onmessage for such a message: JSON.parse throws and the catch logs
\* an error, or the switch falls to its default and logs the message.
DeliverIgnored ==
    /\ wsState = "OPEN" /\ wsIn # <<>> /\ Head(wsIn).type \in Ignorable
    /\ wsIn' = Tail(wsIn)
    /\ logged' = logged + 1
    /\ UNCHANGED <<appVars, pageVars, wsState, greeted, nAudio, mediaVars,
                   currentTime, playVars, faceVars, blobs, reportVars,
                   aggVars, endVars, now, lastCapture, hidden, defaultAction, played, reportErrors>>

\* ws.onmessage for the message at the head of the queue: a Blob goes to
\* onAudio, which starts the blob's conversion; a JSON message is
\* dispatched on its type to the page's callbacks.
DeliverAudio ==
    /\ wsState = "OPEN" /\ wsIn # <<>> /\ Head(wsIn).type = "audio"
    /\ wsIn' = Tail(wsIn)
    /\ blobs' = Append(blobs, [frame |-> Len(played) + Len(blobs) + 1,
                               dur |-> Head(wsIn).n])
    /\ UNCHANGED <<logged, appVars, pageVars, wsState, greeted, nAudio, mediaVars,
                   currentTime, playVars, faceVars, reportVars, aggVars,
                   endVars, now, lastCapture, hidden, defaultAction, played, reportErrors>>

DeliverConnected ==
    /\ wsState = "OPEN" /\ wsIn # <<>> /\ Head(wsIn).type = "connected"
    /\ wsIn' = Tail(wsIn)
    /\ onConnected
    /\ UNCHANGED <<logged, appVars, strikes, terminated, wsState, greeted, nAudio,
                   media, stream, audioCtx, currentTime, playVars, faceVars,
                   blobs, reportVars, aggVars, endVars, now, lastCapture, hidden, defaultAction, played, reportErrors>>

\* onWarning: setStrikes(data.strikes); setWarning(data.message).
DeliverWarning ==
    /\ wsState = "OPEN" /\ wsIn # <<>> /\ Head(wsIn).type = "warning"
    /\ wsIn' = Tail(wsIn)
    /\ strikes' = SetState(Head(wsIn).n, strikes)
    /\ UNCHANGED <<logged, appVars, status, terminated, wsState, greeted, nAudio,
                   mediaVars, currentTime, playVars, faceVars, blobs,
                   reportVars, aggVars, endVars, now, lastCapture, hidden, defaultAction, played, reportErrors>>

\* onTerminated: setTerminated(true); setStrikes(data.strikes);
\* handleInterviewEnd(true).
DeliverTerminated ==
    /\ wsState = "OPEN" /\ wsIn # <<>> /\ Head(wsIn).type = "terminated"
    /\ terminated' = SetState(TRUE, terminated)
    /\ strikes' = SetState(Head(wsIn).n, strikes)
    /\ handleInterviewEnd(TRUE, FirstRenderStrikes)
    /\ UNCHANGED <<logged, appVars, status, greeted, nAudio, media, currentTime,
                   playVars, faceVars, blobs, reportVars, aggVars, outcomes,
                   endClicks, now, lastCapture, hidden, defaultAction, played, reportErrors>>

\* blob.arrayBuffer() of a pending onAudio call resolves: playAudio runs.
\* Each call awaits its own promise; nothing orders the calls.
BlobReady(i) ==
    /\ i \in 1..Len(blobs)
    /\ blobs' = SubSeq(blobs, 1, i - 1) \o SubSeq(blobs, i + 1, Len(blobs))
    /\ playAudio(blobs[i].dur)
    /\ played' = IF sched' # sched THEN Append(played, blobs[i].frame)
                  ELSE played
    /\ UNCHANGED <<appVars, pageVars, chanVars, media, stream, capture,
                   recorderRef, currentTime, faceVars, reportVars, aggVars,
                   endVars, now, lastCapture, hidden, defaultAction,
                   reportErrors>>

\* scriptProcessor.onaudioprocess of a connected pipeline on a running
\* context: wsRef.current.sendAudio(buffer), which sends only while the
\* socket is OPEN.  lastCapture records whether the frame went out, and
\* what the session was doing at that moment.
AgentAudioPlaying == audioCtx = "open" /\ currentTime < nextStartTime

SocketAccepts == wsState = "OPEN"

CaptureFrame ==
    /\ capture > 0
    /\ audioCtx = "open"
    /\ lastCapture' = [seq |-> 1 - lastCapture.seq,
                       sent |-> SocketAccepts,
                       terminated |-> terminated,
                       playing |-> AgentAudioPlaying]
    /\ UNCHANGED <<appVars, pageVars, chanVars, mediaVars, currentTime,
                   playVars, faceVars, blobs, reportVars, aggVars, endVars,
                   now, hidden, defaultAction, played, reportErrors>>

\* ------------------------------------------------- violation reports (page)
\* handleCheatingDetection(eventType, confidence), up to its await:
\* reportCheating posts {interview_id, event_type, confidence, details}.
\* The report remembers whether the page was already terminated when it
\* was submitted.
handleCheatingDetection(kind, conf) ==
    /\ nReports < MaxReports
    /\ nReports' = nReports + 1
    /\ reqs' = reqs (+) SetToBag({[kind |-> kind, confidence |-> conf,
                                   late |-> terminated]})
    /\ UNCHANGED resps

eventFrame == <<appVars, pageVars, chanVars, mediaVars, currentTime, playVars,
                faceVars, blobs, aggVars, endVars, now, lastCapture, played, reportErrors>>

sourceFrame == <<eventFrame, hidden>>

\* The listeners of the page's effects; each effect is re-run with the
\* current value of terminated, and removed on unmount.
\* The visibilitychange event is dispatched whenever document.hidden
\* changes; the handler reports only when it finds the document hidden.
handleVisibilityChangeEveryEvent ==
    /\ Mounted
    /\ hidden' = ~hidden
    /\ IF ~terminated
       THEN handleCheatingDetection("tab_switch", TabSwitchConfidence)
       ELSE UNCHANGED reportVars
    /\ UNCHANGED <<eventFrame, defaultAction>>

handleVisibilityChange ==
    /\ Mounted
    /\ hidden' = ~hidden
    /\ IF hidden' /\ ~terminated
       THEN handleCheatingDetection("tab_switch", TabSwitchConfidence)
       ELSE UNCHANGED reportVars
    /\ UNCHANGED <<eventFrame, defaultAction>>

handleBlur ==
    /\ Mounted /\ ~terminated
    /\ handleCheatingDetection("window_blur", WindowBlurConfidence)
    /\ UNCHANGED <<sourceFrame, defaultAction>>

\* The contextmenu and copy listeners: e.preventDefault() and the report
\* are both inside if (!terminated); otherwise the handler does nothing and
\* the browser carries out the default action.
preventDefault == IF ~terminated THEN "cancelled" ELSE "completed"

handleContextMenu ==
    /\ Mounted
    /\ defaultAction' = preventDefault
    /\ IF ~terminated
       THEN handleCheatingDetection("right_click", RightClickConfidence)
       ELSE UNCHANGED reportVars
    /\ UNCHANGED sourceFrame

handleCopy ==
    /\ Mounted
    /\ defaultAction' = preventDefault
    /\ IF ~terminated
       THEN handleCheatingDetection("copy_attempt", CopyAttemptConfidence)
       ELSE UNCHANGED reportVars
    /\ UNCHANGED sourceFrame

\* The report endpoint handles one report: the aggregator's submit, the
\* HTTP answer, and the warning / terminated message pushed on the channel
\* when the event produced a strike and the channel is open.
PushFor(kind, conf) ==
    IF Outcome(kind, conf) = "Warned" THEN Msg("warning", bStrikes + 1)
    ELSE Msg("terminated", bStrikes + 1)

ServerHandleReport(r) ==
    /\ BagIn(r, reqs)
    /\ Submit(r.kind, r.confidence)
    /\ reqs' = reqs (-) SetToBag({r})
    /\ resps' = resps (+) SetToBag({ReportResult(r.late)})
    /\ IF wsState = "OPEN" /\ Outcome(r.kind, r.confidence) # "Ignored"
       THEN /\ Len(wsIn) < MaxWsQueue
            /\ wsIn' = Append(wsIn, PushFor(r.kind, r.confidence))
       ELSE UNCHANGED wsIn
    /\ UNCHANGED <<logged, appVars, pageVars, wsState, greeted, nAudio, mediaVars,
                   currentTime, playVars, faceVars, blobs, nReports, endVars,
                   now, lastCapture, hidden, defaultAction, played, reportErrors>>

\* handleCheatingDetection after its await, the report having succeeded:
\* if (result.strikes) setStrikes(result.strikes);
\* if (result.terminated) { setTerminated(true); handleInterviewEnd(true) }.
StrikesAfterReport(r) ==
    IF r.strikes # 0 THEN SetState(r.strikes, strikes) ELSE strikes

ReportResponse(r) ==
    /\ BagIn(r, resps)
    /\ resps' = resps (-) SetToBag({r})
    /\ strikes' = StrikesAfterReport(r)
    /\ IF r.terminated
       THEN /\ terminated' = SetState(TRUE, terminated)
            /\ handleInterviewEnd(TRUE, FirstRenderStrikes)
       ELSE UNCHANGED <<terminated, cleanupVars, teardowns, endRequests,
                        endPending>>
    /\ UNCHANGED <<logged, appVars, status, greeted, nAudio, media, currentTime,
                   playVars, faceVars, blobs, reqs, nReports, aggVars,
                   outcomes, endClicks, now, lastCapture, hidden, defaultAction, played, reportErrors>>

ReportFailedCountsStrike ==
    /\ \/ \E r \in BagToSet(reqs) :
             reqs' = reqs (-) SetToBag({r}) /\ UNCHANGED resps
       \/ \E r \in BagToSet(resps) :
             resps' = resps (-) SetToBag({r}) /\ UNCHANGED reqs
    /\ reportErrors' = reportErrors + 1
    /\ strikes' = IF strikes < MaxStrikes THEN strikes + 1 ELSE strikes
    /\ UNCHANGED <<appVars, status, terminated, chanVars, mediaVars,
                   currentTime, playVars, faceVars, blobs, nReports, aggVars,
                   endVars, now, lastCapture, hidden, defaultAction, played>>

\* reportCheating throws (the request never arrives, or the answer is lost
\* or is not OK): the catch of handleCheatingDetection logs the error and
\* nothing else happens.
ReportFailed ==
    /\ \/ \E r \in BagToSet(reqs) :
             reqs' = reqs (-) SetToBag({r}) /\ UNCHANGED resps
       \/ \E r \in BagToSet(resps) :
             resps' = resps (-) SetToBag({r}) /\ UNCHANGED reqs
    /\ reportErrors' = reportErrors + 1
    /\ UNCHANGED <<appVars, pageVars, chanVars, mediaVars, currentTime,
                   playVars, faceVars, blobs, nReports, aggVars, endVars, now,
                   lastCapture, hidden, defaultAction, played>>

\* ------------------------------------------------------ face source (page)
\* initFaceDetector(): a detector is stored when the runtime has a
\* FaceDetector and its constructor does not throw.
initFaceDetector ==
    /\ faceDetector = "uninitialized"
    /\ faceDetector' \in {"available", "unavailable"}
    /\ UNCHANGED <<appVars, pageVars, chanVars, mediaVars, currentTime,
                   playVars, lastFaceDetected, lastAnyFace, lastDetect, facePoll,
                   nextPoll,
                   blobs, reportVars, aggVars, endVars, now, lastCapture, hidden, defaultAction, played, reportErrors>>

FacePollFireWithoutDetectorTest ==
    /\ Mounted
    /\ now >= nextPoll
    /\ nextPoll' = nextPoll + FacePollInterval
    /\ facePoll' = IF ~terminated THEN "detecting" ELSE facePoll
    /\ UNCHANGED <<appVars, pageVars, chanVars, mediaVars, currentTime,
                   playVars, lastFaceDetected, lastAnyFace, lastDetect,
                   faceDetector, blobs,
                   reportVars, aggVars, endVars, now, lastCapture, hidden, defaultAction, played, reportErrors>>

\* The setInterval timer fires detectFace, which returns at once without a
\* video element, without a detector or when terminated, and otherwise
\* awaits faceDetectorRef.current.detect(canvas).
FacePollFire ==
    /\ Mounted
    /\ now >= nextPoll
    /\ nextPoll' = nextPoll + FacePollInterval
    /\ facePoll' = IF faceDetector = "available" /\ ~terminated
                   THEN "detecting"
                   ELSE facePoll
    /\ UNCHANGED <<appVars, pageVars, chanVars, mediaVars, currentTime,
                   playVars, lastFaceDetected, lastAnyFace, lastDetect,
                   faceDetector, blobs,
                   reportVars, aggVars, endVars, now, lastCapture, hidden, defaultAction, played, reportErrors>>

faceFrame == <<appVars, pageVars, chanVars, mediaVars, currentTime, playVars,
               faceDetector, nextPoll, blobs, aggVars, endVars, now,
               lastCapture, hidden, defaultAction, played, reportErrors>>

\* detectFace after its await.  faces is the number of faces detected.
GraceExpired == now - lastFaceDetected > NoFaceGrace

FaceResultNone ==
    /\ facePoll = "detecting"
    /\ facePoll' = "idle"
    /\ IF GraceExpired
       THEN /\ handleCheatingDetection("no_face", NoFaceConfidence)
            /\ lastFaceDetected' = now
       ELSE UNCHANGED <<reportVars, lastFaceDetected>>
    /\ lastDetect' = "zero"
    /\ UNCHANGED <<lastAnyFace, faceFrame>>

FaceResultMultipleAfterGrace ==
    /\ facePoll = "detecting"
    /\ facePoll' = "idle"
    /\ IF GraceExpired
       THEN handleCheatingDetection("multiple_faces", MultipleFacesConfidence)
       ELSE UNCHANGED reportVars
    /\ lastDetect' = "many"
    /\ lastAnyFace' = now
    /\ UNCHANGED <<lastFaceDetected, faceFrame>>

FaceResultMultiple ==
    /\ facePoll = "detecting"
    /\ facePoll' = "idle"
    /\ handleCheatingDetection("multiple_faces", MultipleFacesConfidence)
    /\ lastDetect' = "many"
    /\ lastAnyFace' = now
    /\ UNCHANGED <<lastFaceDetected, faceFrame>>

FaceResultOne ==
    /\ facePoll = "detecting"
    /\ facePoll' = "idle"
    /\ lastFaceDetected' = now
    /\ lastDetect' = "one"
    /\ lastAnyFace' = now
    /\ UNCHANGED <<reportVars, faceFrame>>

\* detect() rejects: the catch logs at debug level.
FaceResultError ==
    /\ facePoll = "detecting"
    /\ facePoll' = "idle"
    /\ lastDetect' = "error"
    /\ UNCHANGED <<reportVars, lastFaceDetected, lastAnyFace, faceFrame>>

\* ------------------------------------------------ ending the session (page)
\* The End Interview button: handleInterviewEnd(false).  The terminated
\* dialog, once rendered, covers the page and the button with it.
EndInterviewButton ==
    /\ Mounted /\ ~terminated
    /\ endClicks < MaxEndClicks
    /\ endClicks' = endClicks + 1
    /\ handleInterviewEnd(FALSE, strikes)
    /\ UNCHANGED <<logged, appVars, pageVars, greeted, nAudio, media, currentTime,
                   playVars, faceVars, blobs, reportVars, aggVars, outcomes,
                   now, lastCapture, hidden, defaultAction, played, reportErrors>>

\* handleInterviewEnd after its await: endInterview resolved or threw; in
\* both cases onComplete({..., wasTerminated, strikes}).
ReportedAlwaysTerminated(wasTerminated) == "Terminated"

Reported(wasTerminated) == IF wasTerminated THEN "Terminated" ELSE "Completed"

EndInterviewResponseSilent(e) ==
    /\ BagIn(e, endPending)
    /\ endPending' = endPending (-) SetToBag({e})
    /\ UNCHANGED <<appVars, pageVars, chanVars, mediaVars, currentTime,
                   playVars, faceVars, blobs, reportVars, aggVars, endRequests,
                   teardowns, outcomes, endClicks, lastCleanup, now,
                   lastCapture, hidden, defaultAction, played, reportErrors>>

EndInterviewResponse(e) ==
    /\ BagIn(e, endPending)
    /\ endPending' = endPending (-) SetToBag({e})
    /\ onComplete(Reported(e.wasTerminated), e.strikes)
    /\ UNCHANGED <<logged, pageVars, greeted, nAudio, media, currentTime, playVars,
                   faceVars, blobs, reportVars, aggVars, endRequests,
                   teardowns, endClicks, now, lastCapture, hidden, defaultAction, played, reportErrors>>

\* The terminated dialog's Return to Home button:
\* onComplete({terminated: true, strikes}).
TerminatedDialogButton ==
    /\ Mounted /\ terminated
    /\ onComplete("Terminated", strikes)
    /\ UNCHANGED <<logged, pageVars, greeted, nAudio, media, currentTime, playVars,
                   faceVars, blobs, reportVars, aggVars, endPending,
                   endRequests, teardowns, endClicks, now, lastCapture, hidden, defaultAction, played, reportErrors>>

\* App.handleStartOver, from the navbar shown on every page but home.
handleStartOver ==
    /\ page # "home"
    /\ page' = "home"
    /\ interviewData' = "none"
    /\ dataStrikes' = 0
    /\ IF Mounted THEN cleanup ELSE UNCHANGED cleanupVars
    /\ UNCHANGED <<logged, pageVars, greeted, nAudio, media, currentTime, playVars,
                   faceVars, blobs, reportVars, aggVars, endPending,
                   endRequests, teardowns, outcomes, endClicks, now,
                   lastCapture, hidden, defaultAction, played, reportErrors>>

\* ------------------------------------------------------------ the session
Next ==
    \/ Tick
    \/ MediaGranted
    \/ MediaDenied
    \/ WsOpen
    \/ WsDropped
    \/ WsClosed
    \/ ServerSendConnected
    \/ \E dur \in 0..MaxDur : ServerSendAudio(dur)
    \/ DeliverAudio
    \/ DeliverConnected
    \/ DeliverWarning
    \/ DeliverTerminated
    \/ \E type \in Ignorable : ServerSendOther(type)
    \/ DeliverIgnored
    \/ \E i \in 1..MaxFrames + 1 : BlobReady(i)
    \/ CaptureFrame
    \/ handleVisibilityChange
    \/ handleBlur
    \/ handleContextMenu
    \/ handleCopy
    \/ \E r \in BagToSet(reqs) : ServerHandleReport(r)
    \/ \E r \in BagToSet(resps) : ReportResponse(r)
    \/ ReportFailed
    \/ initFaceDetector
    \/ FacePollFire
    \/ FaceResultNone
    \/ FaceResultMultiple
    \/ FaceResultOne
    \/ FaceResultError
    \/ EndInterviewButton
    \/ \E e \in BagToSet(endPending) : EndInterviewResponse(e)
    \/ TerminatedDialogButton
    \/ handleStartOver

Spec == Init /\ [][Next]_vars

\* The composition above is checked through restrictions of Next, each to
\* the operations of one concern; every behaviour of a restriction is a
\* behaviour of Spec.

\* Strike reporting, termination and completion, at one instant of the clock.
NextStrikes ==
    \/ WsOpen
    \/ WsDropped
    \/ WsClosed
    \/ DeliverWarning
    \/ DeliverTerminated
    \/ handleVisibilityChange
    \/ handleBlur
    \/ handleContextMenu
    \/ handleCopy
    \/ \E r \in BagToSet(reqs) : ServerHandleReport(r)
    \/ \E r \in BagToSet(resps) : ReportResponse(r)
    \/ ReportFailed
    \/ EndInterviewButton
    \/ \E e \in BagToSet(endPending) : EndInterviewResponse(e)
    \/ TerminatedDialogButton
    \/ handleStartOver

SpecStrikes == Init /\ [][NextStrikes]_vars

\* The face source and the clock, with the two listeners that can bring the
\* session to termination.
NextFace ==
    \/ Tick
    \/ initFaceDetector
    \/ FacePollFire
    \/ FaceResultNone
    \/ FaceResultMultiple
    \/ FaceResultOne
    \/ FaceResultError
    \/ handleVisibilityChange
    \/ handleBlur
    \/ \E r \in BagToSet(reqs) : ServerHandleReport(r)
    \/ \E r \in BagToSet(resps) : ReportResponse(r)

SpecFace == Init /\ [][NextFace]_vars

\* Audio capture and playback over the channel, with the operations that
\* can bring the session to termination, at one instant of the clock.
NextAudio ==
    \/ MediaGranted
    \/ MediaDenied
    \/ WsOpen
    \/ WsDropped
    \/ WsClosed
    \/ ServerSendConnected
    \/ \E dur \in 0..MaxDur : ServerSendAudio(dur)
    \/ DeliverAudio
    \/ DeliverConnected
    \/ DeliverTerminated
    \/ \E i \in 1..MaxFrames + 1 : BlobReady(i)
    \/ CaptureFrame
    \/ handleVisibilityChange
    \/ handleBlur
    \/ \E r \in BagToSet(reqs) : ServerHandleReport(r)
    \/ \E r \in BagToSet(resps) : ReportResponse(r)

SpecAudio == Init /\ [][NextAudio]_vars

\* The channel's message dispatch, with the reports that make the server
\* push control messages.
NextChannel ==
    \/ MediaGranted
    \/ WsOpen
    \/ WsDropped
    \/ WsClosed
    \/ ServerSendConnected
    \/ \E type \in Ignorable : ServerSendOther(type)
    \/ DeliverConnected
    \/ DeliverWarning
    \/ DeliverTerminated
    \/ DeliverIgnored
    \/ handleVisibilityChange
    \/ handleBlur
    \/ \E r \in BagToSet(reqs) : ServerHandleReport(r)
    \/ \E r \in BagToSet(resps) : ReportResponse(r)

SpecChannel == Init /\ [][NextChannel]_vars

\* Capture and teardown: the capture pipeline, and every way the page has
\* of tearing the session down.
NextTeardown ==
    \/ MediaGranted
    \/ WsOpen
    \/ WsClosed
    \/ ServerSendConnected
    \/ DeliverConnected
    \/ DeliverTerminated
    \/ CaptureFrame
    \/ handleVisibilityChange
    \/ handleBlur
    \/ \E r \in BagToSet(reqs) : ServerHandleReport(r)
    \/ \E r \in BagToSet(resps) : ReportResponse(r)
    \/ EndInterviewButton
    \/ \E e \in BagToSet(endPending) : EndInterviewResponse(e)
    \/ TerminatedDialogButton
    \/ handleStartOver

SpecTeardown == Init /\ [][NextTeardown]_vars

\* Termination and completion, with the guarantee that every end-interview
\* call settles (fetch resolves or rejects), so that the continuation of
\* handleInterviewEnd runs.
NextTermination ==
    \/ MediaGranted
    \/ MediaDenied
    \/ WsOpen
    \/ WsDropped
    \/ DeliverTerminated
    \/ CaptureFrame
    \/ handleVisibilityChange
    \/ handleBlur
    \/ \E r \in BagToSet(reqs) : ServerHandleReport(r)
    \/ \E r \in BagToSet(resps) : ReportResponse(r)
    \/ EndInterviewButton
    \/ \E e \in BagToSet(endPending) : EndInterviewResponse(e)
    \/ TerminatedDialogButton

SpecTermination ==
    /\ Init
    /\ [][NextTermination]_vars
    /\ \A e \in EndCalls : WF_vars(EndInterviewResponse(e))

\* The face source beside one other source and the session's start-up.
NextFaceCapability ==
    \/ Tick
    \/ MediaGranted
    \/ WsOpen
    \/ initFaceDetector
    \/ FacePollFire
    \/ FaceResultNone
    \/ FaceResultMultiple
    \/ handleCopy
    \/ \E r \in BagToSet(reqs) : ServerHandleReport(r)
    \/ \E r \in BagToSet(resps) : ReportResponse(r)

SpecFaceCapability == Init /\ [][NextFaceCapability]_vars

\* The face-poll timer beside the ways the page has of tearing the session
\* down.
NextTimers ==
    \/ Tick
    \/ initFaceDetector
    \/ FacePollFire
    \/ FaceResultNone
    \/ FaceResultMultiple
    \/ FaceResultOne
    \/ FaceResultError
    \/ handleVisibilityChange
    \/ \E r \in BagToSet(reqs) : ServerHandleReport(r)
    \/ \E r \in BagToSet(resps) : ReportResponse(r)
    \/ EndInterviewButton
    \/ \E e \in BagToSet(endPending) : EndInterviewResponse(e)
    \/ TerminatedDialogButton

SpecTimers == Init /\ [][NextTimers]_vars

\* The four listeners and the reports they submit.
NextSources ==
    \/ handleVisibilityChange
    \/ handleBlur
    \/ handleContextMenu
    \/ handleCopy
    \/ \E r \in BagToSet(reqs) : ServerHandleReport(r)
    \/ \E r \in BagToSet(resps) : ReportResponse(r)

SpecSources == Init /\ [][NextSources]_vars

\* The socket's life: opening, dropping, and every teardown that closes it.
NextSocket ==
    \/ WsOpen
    \/ WsDropped
    \/ WsClosed
    \/ DeliverTerminated
    \/ handleVisibilityChange
    \/ handleBlur
    \/ \E r \in BagToSet(reqs) : ServerHandleReport(r)
    \/ \E r \in BagToSet(resps) : ReportResponse(r)
    \/ EndInterviewButton
    \/ \E e \in BagToSet(endPending) : EndInterviewResponse(e)
    \/ TerminatedDialogButton
    \/ handleStartOver

SpecSocket == Init /\ [][NextSocket]_vars

\* The start of audio capture: the media grant, the socket's opening and
\* the server's greeting, in any order, with nothing tearing the session
\* down.  Whatever can happen eventually does: the prompt is answered, the
\* socket opens, the server greets, queued messages are delivered.
NextCapture ==
    \/ Tick
    \/ MediaGranted
    \/ WsOpen
    \/ ServerSendConnected
    \/ DeliverConnected
    \/ CaptureFrame

SpecCapture == Init /\ [][NextCapture]_vars /\ WF_vars(NextCapture)

\* Reports that fail, beside reports that succeed.
NextReportFailure ==
    \/ handleVisibilityChange
    \/ handleBlur
    \/ handleCopy
    \/ \E r \in BagToSet(reqs) : ServerHandleReport(r)
    \/ \E r \in BagToSet(resps) : ReportResponse(r)
    \/ ReportFailed

SpecReportFailure == Init /\ [][NextReportFailure]_vars

\* Establishing the session while time passes: media, the connection
\* attempt, and the End Interview button.
NextConnect ==
    \/ Tick
    \/ MediaGranted
    \/ MediaDenied
    \/ WsOpen
    \/ WsDropped
    \/ WsClosed
    \/ ServerSendConnected
    \/ DeliverConnected
    \/ EndInterviewButton
    \/ \E e \in BagToSet(endPending) : EndInterviewResponse(e)

SpecConnect == Init /\ [][NextConnect]_vars

\* ================================================================ claims

\* C1: for every sequence of violation events and backend messages, in any
\* arrival order, the strike count held by the page never decreases and
\* never exceeds max-strikes.
C1_StrikesMonotoneBounded ==
    [][strikes' >= strikes /\ strikes' <= MaxStrikes]_vars

\* C2: once a Terminated outcome has been returned, every later violation
\* submission is a no-op: the aggregator ignores it, the page's terminated
\* flag stays set, and receiving the answer to a report submitted after
\* termination changes neither the page's strike count nor its terminated
\* flag.
IsAnswerTo(r) ==
    /\ BagIn(r, resps)
    /\ r.late
    /\ resps' = resps (-) SetToBag({r})

C2_SubmitAfterTerminatedIsNoOp ==
    [][/\ bTerminated => (bTerminated' /\ bStrikes' = bStrikes)
       /\ terminated => terminated'
       /\ \A r \in BagToSet(resps) :
             IsAnswerTo(r) => (strikes' = strikes /\ terminated' = terminated)
      ]_vars

\* C3: when one manual end-interview request and a terminal strike come
\* together, exactly one of Terminated and Completed is reported through
\* onComplete, and no second teardown is issued.
C3_OneFinalStateOneTeardown ==
    (endClicks = 1 /\ bTerminated) =>
        (Cardinality(outcomes) <= 1 /\ teardowns <= 1)

\* C4: at most one end-interview request is issued per session, whatever
\* triggers fire.
C4_AtMostOneEndRequest == endRequests <= 1

\* C5: Terminated and Completed are absorbing: once the session has reached
\* either, no later event changes its lifecycle state.  The lifecycle state
\* is the outcome last reported through onComplete; before any is reported
\* it is Terminated when the terminated flag is set, and the connection
\* status otherwise.
SessionState ==
    IF interviewData # "none" THEN interviewData
    ELSE IF terminated THEN "Terminated"
    ELSE status

C5_FinalStatesAbsorbing ==
    [][(SessionState \in {"Terminated", "Completed"} /\ page' # "home")
          => SessionState' = SessionState]_vars

\* C6: once the page is terminated, no captured frame is sent on the channel
\* and no inbound frame is scheduled for playback.
C6_NoAudioAfterTerminated ==
    [][terminated =>
          /\ sched' = sched
          /\ (lastCapture' # lastCapture => ~lastCapture'.sent)]_vars

\* C7: playAudio never schedules two frames with overlapping time ranges,
\* and the scheduling cursor never decreases.
C7_NoOverlapCursorMonotone ==
    [][/\ nextStartTime' >= nextStartTime
       /\ sched' # sched =>
             \A i \in 1..Len(sched) :
                 sched'[Len(sched')][1] >= sched[i][2]]_vars

C7_Witness ==
    /\ Len(sched) = 2
    /\ sched[1][2] > sched[1][1]
    /\ sched[2][1] = sched[1][2]
    /\ currentTime < sched[2][1]

\* C8: human and agent never speak together: no captured frame goes out on
\* the channel while agent audio is being played.
C8_OneSpeakerAtATime == ~(lastCapture.sent /\ lastCapture.playing)

\* C9: an event below the confidence threshold never increments the strike
\* count, and every submitted event is retained in the audit log.
StrikeEntries == {i \in 1..Len(bLog) : bLog[i].strike > 0}

C9_BelowThresholdLoggedNoStrike ==
    /\ Len(bLog) = nHandled
    /\ bStrikes = Cardinality(StrikeEntries)
    /\ \A i \in 1..Len(bLog) :
          bLog[i].confidence < ConfidenceThreshold => bLog[i].strike = 0

C9_Witness ==
    /\ Len(bLog) = 2
    /\ bLog[1].strike = 1
    /\ bLog[2].confidence < ConfidenceThreshold
    /\ bLog[2].kind # bLog[1].kind
    /\ bStrikes = 1

\* C10: two events of the same kind submitted within the cooldown window
\* produce at most one strike.
C10_CooldownOneStrike ==
    \A i, j \in 1..Len(bLog) :
        (/\ i < j
         /\ bLog[i].kind = bLog[j].kind
         /\ bLog[j].time - bLog[i].time < CooldownWindow)
        => ~(bLog[i].strike > 0 /\ bLog[j].strike > 0)

C10_Witness ==
    /\ Len(bLog) = 2
    /\ bLog[1].kind = bLog[2].kind
    /\ bLog[2].confidence >= ConfidenceThreshold
    /\ bLog[2].time - bLog[1].time < CooldownWindow
    /\ bLog[1].strike = 1
    /\ bLog[2].strike = 0
    /\ ~bTerminated

\* C11: an accepted event that yields strike number n is Warned when
\* n < max-strikes and Terminated when n >= max-strikes, an event yields no
\* strike exactly when it is Ignored, and the session is terminated exactly
\* when its strike count has reached max-strikes; in particular tab_switch
\* (1.0) then window_blur (0.85) give Warned(1) then Terminated(2), and every
\* later submission is Ignored.
TabThenBlur ==
    /\ Len(bLog) >= 2
    /\ bLog[1].kind = "tab_switch" /\ bLog[1].confidence = TabSwitchConfidence
    /\ bLog[2].kind = "window_blur"
    /\ bLog[2].confidence = WindowBlurConfidence

C11_WarnedThenTerminated ==
    /\ \A i \in 1..Len(bLog) :
          /\ bLog[i].strike = 0 <=> bLog[i].outcome = "Ignored"
          /\ bLog[i].strike > 0 =>
                bLog[i].outcome = IF bLog[i].strike < MaxStrikes
                                  THEN "Warned" ELSE "Terminated"
    /\ bTerminated <=> bStrikes >= MaxStrikes
    /\ TabThenBlur =>
          /\ bLog[1].outcome = "Warned" /\ bLog[1].strike = 1
          /\ bLog[2].outcome = "Terminated" /\ bLog[2].strike = 2
          /\ \A i \in 3..Len(bLog) : bLog[i].outcome = "Ignored"

C11_Witness ==
    /\ TabThenBlur
    /\ Len(bLog) = 3
    /\ bLog[3].confidence >= ConfidenceThreshold
    /\ bLog[3].outcome = "Ignored"
    /\ bStrikes = MaxStrikes /\ bTerminated

\* C12: a no_face event is emitted only after the absence of a detected
\* face has persisted beyond the grace window: whenever the page submits a
\* no_face report, more than NoFaceGrace seconds have passed since a face
\* was last detected (or since the page was mounted).
EmitsNoFace ==
    \E r \in BagToSet(reqs') :
        r.kind = "no_face" /\ CopiesIn(r, reqs') > CopiesIn(r, reqs)

C12_NoFaceOnlyAfterGrace ==
    [][EmitsNoFace => now - lastAnyFace > NoFaceGrace]_vars

\* C13 (as stated): teardown releases the audio transport, capture graph
\* and capture device both, before it closes the channel.
Before(steps, x, y) ==
    \A i, j \in 1..Len(steps) : (steps[i] = x /\ steps[j] = y) => i < j

C13_AudioTransportBeforeChannel ==
    /\ Before(lastCleanup, "capture", "channel")
    /\ Before(lastCleanup, "device", "channel")

\* C13 (amended): teardown disconnects the capture graph first, then closes
\* the channel, and only then stops the capture device and closes the audio
\* context; once a teardown has run, no captured frame is produced for
\* transmission any more.
C13_CaptureGraphThenChannel ==
    [][/\ Before(lastCleanup', "capture", "channel")
       /\ Before(lastCleanup', "channel", "device")
       /\ Before(lastCleanup', "channel", "context")
       /\ lastCleanup # <<>> => lastCapture' = lastCapture]_vars

C13_Witness ==
    /\ lastCleanup = <<"capture", "channel", "device", "context">>
    /\ lastCapture.sent
    /\ wsState # "OPEN"
    /\ capture = 0

\* C14: when the connection is lost the page shows the disconnected status,
\* and after the channel's close event no captured frame is produced for
\* sending and no frame is scheduled for playback.
C14_DisconnectStopsAudio ==
    [][/\ (wsState # "CLOSED" /\ wsState' = "CLOSED" /\ Mounted)
            => status' = "disconnected"
       /\ wsState = "CLOSED"
            => (sched' = sched /\ lastCapture' = lastCapture)]_vars

\* C15: the channel never reconnects within a session: the one socket the
\* mount effect created only moves forward through CONNECTING, OPEN,
\* CLOSING, CLOSED, and once it is closing or closed (after an error, a
\* close event or a teardown) no connection is open or being opened again.
C15_NoReconnect ==
    [][/\ wsState \in {"CLOSING", "CLOSED"} => wsState' \in {"CLOSING", "CLOSED"}
       /\ wsState = "OPEN" => wsState' # "CONNECTING"]_vars

C15_Witness ==
    /\ wsState = "CLOSED"
    /\ status = "disconnected"
    /\ Mounted
    /\ teardowns = 0
    /\ strikes = 1

\* C16: a text message that is not valid JSON, or whose type the page does
\* not know, is logged and ignored: handling it changes nothing but the
\* queue and the log, and a control message that follows one is dispatched
\* as usual (a warning sets the strike count it carries).
Dispatches == wsState = "OPEN" /\ wsState' = "OPEN" /\ wsIn # <<>> /\ wsIn' = Tail(wsIn)

OnlyQueueAndLogChange ==
    /\ logged' = logged + 1
    /\ UNCHANGED <<appVars, pageVars, wsState, greeted, nAudio, mediaVars,
                   currentTime, playVars, faceVars, blobs, reportVars,
                   aggVars, endVars, lastCapture, hidden, defaultAction, played, reportErrors>>

C16_UnknownMessagesIgnored ==
    [][/\ (Dispatches /\ Head(wsIn).type \in Ignorable) => OnlyQueueAndLogChange
       /\ (Dispatches /\ logged > 0 /\ Head(wsIn).type = "warning" /\ Mounted)
            => strikes' = Head(wsIn).n]_vars

C16_Witness ==
    /\ logged = 1
    /\ wsState = "OPEN"
    /\ wsIn # <<>> /\ Head(wsIn).type = "warning"
    /\ status = "connected"
    /\ strikes = 0

\* C17: a captured frame is never dropped silently: a frame the channel
\* does not accept is kept for later or its loss is logged.  The page keeps
\* no queue of frames, so a frame that is not sent is lost, and its loss
\* must then be logged.
C17_NoSilentDrop ==
    [][lastCapture' # lastCapture =>
          (lastCapture'.sent \/ logged' > logged)]_vars

\* C18: a capture error puts the page in the error status, and that status
\* is not replaced by 'connected' when the channel opens afterwards.
C18_CaptureErrorSticks ==
    [][/\ (media = "pending" /\ media' = "denied" /\ Mounted)
            => status' = "error"
       /\ (media = "denied" /\ status = "error") => status' # "connected"]_vars

\* C19: a connection attempt that has not succeeded within a bounded window
\* is treated as a fatal error: once the window has passed, the page no
\* longer shows the connecting status.
C19_ConnectingBounded ==
    (Mounted /\ now >= ConnectWindow) => status # "connecting"

\* C20: events are evaluated one at a time against the strike counter, each
\* with the outcome of every earlier one applied: the strike number of every
\* log entry is the one obtained by replaying the log's events in order,
\* however many reports of whichever sources were in flight together.
RECURSIVE ExpectedStrike(_)
ExpectedStrike(i) ==
    LET prior == {j \in 1..(i - 1) : ExpectedStrike(j) > 0}
        cooling == \E j \in prior :
                      /\ bLog[j].kind = bLog[i].kind
                      /\ bLog[i].time - bLog[j].time < CooldownWindow
    IN  IF /\ Cardinality(prior) < MaxStrikes
           /\ bLog[i].confidence >= ConfidenceThreshold
           /\ ~cooling
        THEN Cardinality(prior) + 1
        ELSE 0

TerminationUnderWay == \E e \in BagToSet(endPending) : e.wasTerminated

TerminationDone ==
    /\ "Terminated" \in outcomes
    /\ endRequests >= 1
    /\ ~(capture > 0 /\ audioCtx = "open")

C21_TerminationCompletes == TerminationUnderWay ~> TerminationDone

C21_Witness ==
    /\ bTerminated /\ terminated
    /\ TerminationDone
    /\ interviewData = "Terminated"
    /\ page = "results"
    /\ lastCapture.sent

\* C22: whenever the user has asked to end the interview, and
\* handleInterviewEnd(false) is therefore under way, Completed is eventually
\* reported through onComplete and the App shows the results, whatever the
\* page's status was and however the end-interview call ends.
ManualEndUnderWay == \E e \in BagToSet(endPending) : ~e.wasTerminated

CompletedReported == interviewData = "Completed" /\ page = "results"

C22_ManualEndCompletes == ManualEndUnderWay ~> CompletedReported

C22_Witness ==
    /\ CompletedReported
    /\ endClicks = 1
    /\ status = "error"
    /\ ~bTerminated
    /\ outcomes = {"Completed"}

\* C23: without a face-detection capability the face source produces no
\* events: no detection is ever started and no no_face or multiple_faces
\* report is submitted; and finding the capability missing changes nothing
\* else in the session.
FaceKinds == {"no_face", "multiple_faces"}

EmitsFaceEvent ==
    \E r \in BagToSet(reqs') :
        r.kind \in FaceKinds /\ CopiesIn(r, reqs') > CopiesIn(r, reqs)

C23_NoDetectorNoEvents ==
    [][faceDetector' = "unavailable" =>
          /\ facePoll' = "idle"
          /\ ~EmitsFaceEvent
          /\ faceDetector = "uninitialized" =>
                UNCHANGED <<appVars, pageVars, chanVars, mediaVars, reportVars,
                            endVars>>]_vars

C23_Witness ==
    /\ faceDetector = "unavailable"
    /\ nextPoll > 2 * FacePollInterval
    /\ status = "connected"
    /\ capture = 1
    /\ strikes = 1
    /\ ~terminated

\* C24: tearing the session down cancels its timers: once cleanup() has run
\* (on termination, manual end or unmount) the face-poll timer starts no
\* further detection and no face report is submitted.
TornDown == lastCleanup # <<>>

StartsDetection == facePoll = "idle" /\ facePoll' = "detecting"

C24_TimersCancelledByTeardown ==
    [][TornDown => ~StartsDetection /\ ~EmitsFaceEvent]_vars

\* C25: the visibility and focus sources are edge-triggered: while the
\* session is live, each transition of the document to hidden submits
\* exactly one tab_switch report, each blur submits exactly one window_blur
\* report, and a transition back to visible submits nothing.
Emits(kind) ==
    \E r \in BagToSet(reqs') :
        r.kind = kind /\ CopiesIn(r, reqs') > CopiesIn(r, reqs)

EmitsExactly(kind, conf) ==
    /\ reqs' = reqs (+) SetToBag({[kind |-> kind, confidence |-> conf,
                                   late |-> FALSE]})
    /\ nReports' = nReports + 1
    /\ resps' = resps

C25_EdgeTriggered ==
    [][/\ (~hidden /\ hidden' /\ ~terminated)
            => EmitsExactly("tab_switch", TabSwitchConfidence)
       /\ (hidden /\ ~hidden') => UNCHANGED reportVars
       /\ Emits("tab_switch") => ~hidden /\ hidden'
       /\ Emits("window_blur")
            => EmitsExactly("window_blur", WindowBlurConfidence)]_vars

C25_Witness ==
    /\ ~hidden
    /\ nReports = 2
    /\ Len(bLog) = 2
    /\ bLog[1].kind = "tab_switch"
    /\ bLog[2].kind = "window_blur"
    /\ bLog[2].outcome = "Terminated"
    /\ ~terminated

\* C26: every context-menu and copy action during the page's lifetime, in
\* every session state, has its default action cancelled and submits one
\* right_click / copy_attempt report.
MenuOrCopyAction ==
    \/ defaultAction' # defaultAction
    \/ Emits("right_click")
    \/ Emits("copy_attempt")

C26_DefaultCancelledInEveryState ==
    [][MenuOrCopyAction
        => /\ defaultAction' = "cancelled"
           /\ \/ EmitsExactly("right_click", RightClickConfidence)
              \/ EmitsExactly("copy_attempt", CopyAttemptConfidence)]_vars

\* C27: a face poll that detects more than one face submits a
\* multiple_faces report on that poll, with no grace window and whatever the
\* time since a single face was last seen.
DetectsMultipleFaces ==
    /\ facePoll = "detecting" /\ facePoll' = "idle"
    /\ lastDetect' = "many"

C27_MultipleFacesImmediate ==
    [][DetectsMultipleFaces
        => /\ Emits("multiple_faces")
           /\ nReports' = nReports + 1
           /\ ~Emits("no_face")]_vars

C27_Witness ==
    /\ \E r \in BagToSet(reqs) : r.kind = "multiple_faces"
    /\ nReports = 1
    /\ lastDetect = "many"
    /\ lastAnyFace = now
    /\ lastFaceDetected > 0
    /\ now - lastFaceDetected <= NoFaceGrace
    /\ facePoll = "idle"

\* C28: a frame that arrives when the playback cursor has fallen behind the
\* audio clock is scheduled to start at the current time, not at the stale
\* cursor; otherwise it starts exactly at the cursor; either way the cursor
\* becomes the frame's start time plus its duration.
C28_StaleCursorResets ==
    [][sched' # sched =>
          LET frame == sched'[Len(sched')]
              duration == frame[2] - frame[1]
          IN  /\ Len(sched') = Len(sched) + 1
              /\ duration > 0
              /\ frame[1] = IF nextStartTime < currentTime
                            THEN currentTime
                            ELSE nextStartTime
              /\ nextStartTime' = frame[1] + duration]_vars

C28_Witness ==
    /\ Len(sched) = 2
    /\ sched[2][1] > sched[1][2]
    /\ sched[2][1] = currentTime
    /\ nextStartTime = sched[2][2]

\* C29: the capture graph, the capture device and the audio context are
\* released exactly once per session: over every path that triggers
\* teardown, no cleanup() carries out a release that an earlier cleanup()
\* has already carried out.
ReleaseOps == {"capture", "device", "context"}

Released(steps) == {op \in ReleaseOps : \E i \in 1..Len(steps) : steps[i] = op}

CleanupRuns ==
    \/ teardowns' # teardowns
    \/ Mounted /\ page' # "interview"

C29_ReleasedExactlyOnce ==
    [][CleanupRuns
        => Released(lastCleanup) \cap Released(CleanupSteps) = {}]_vars

\* C30: inbound audio frames are scheduled for playback in the order in
\* which the channel delivered them, although each is converted
\* asynchronously before it is scheduled.
C30_PlaybackInDeliveryOrder ==
    \A i, j \in 1..Len(played) : i < j => played[i] < played[j]

\* C31: the strike count passed to the completion callback when a session
\* ends (by termination or by manual end) is the latest strike count the
\* session received from the backend before ending, which is the one the
\* page's strikes state holds at that moment.
SessionEnds == Mounted /\ page' = "results"

C31_CompletionCarriesLatestStrikes ==
    [][SessionEnds => dataStrikes' = strikes]_vars

\* C32: at most one audio capture pipeline exists per session, so that a
\* captured frame is sent at most once, although the connected callback can
\* be invoked both by the socket's open event and by a connected message;
\* and every pipeline ever created is disconnected by teardown.
C32_OneCapturePipeline ==
    /\ capture <= 1
    /\ TornDown => capture = 0

\* C33: if media access is granted and the channel connects, audio capture
\* eventually starts, in whichever order the grant and the channel's
\* connected event occur.
C33_CaptureEventuallyStarts ==
    (media = "granted" /\ wsState = "OPEN") ~> (capture > 0)

\* C34: a violation report that fails (network error or non-OK answer)
\* leaves the session's strike count and terminated state unchanged and
\* starts no teardown, and later violation events are still reported: the
\* listeners of a live page stay able to submit.
ReportFails == reportErrors' = reportErrors + 1

CanStillReport ==
    (Mounted /\ ~terminated /\ nReports < MaxReports)
        => ENABLED handleBlur /\ ENABLED handleCopy

C34_FailedReportChangesNothing ==
    /\ [][ReportFails => UNCHANGED <<appVars, pageVars, endVars, cleanupVars,
                                      nReports, aggVars>>]_vars
    /\ [](reportErrors > 0 => CanStillReport)

C34_Witness ==
    /\ reportErrors = 1
    /\ nReports = 2
    /\ Len(bLog) = 1
    /\ bLog[1].kind = "window_blur"
    /\ bLog[1].outcome = "Warned"
    /\ strikes = 1
    /\ ~terminated
    /\ reqs = EmptyBag /\ resps = EmptyBag
    /\ teardowns = 0

\* C35: a session's completion callback affects navigation only while that
\* session's interview page is displayed: once Start Over has been pressed,
\* no response of the abandoned session that was still pending changes the
\* page away from home or sets interview data.
C35_AbandonedSessionStaysHome ==
    [][page = "home" => page' = "home" /\ interviewData' = "none"]_vars

=============================================================================
